---- MODULE Spec2Model ----
(***************************************************************************)
(* TableMongo query layer (src/TableMongo/query.py): the AND / OR logic    *)
(* operators with their memoized bson() compilation, and the lazy Query    *)
(* object (fetch, count, get, filter, order, iter) built on top of them.   *)
(***************************************************************************)
EXTENDS Integers, Sequences, FiniteSets, TLC

\* ------------------------------------------------------------------ bounds
\* The size of what the client builds: an AND / OR instance counts for
\* itself and for its _partialqueries tuple, plus one per tuple element.
MaxSize == 8

\* Documents in the collection, and the largest offset / count handed to fetch.
MaxDocs == 3
MaxOffset == 3
MaxCount == 2

\* Query objects alive at once.
MaxQueries == 1

\* Threads compiling the same node.
MaxThreads == 2

\* ------------------------------------------------------ python value model
\* Python's None.  Dicts are functions from keys to values, lists are
\* sequences; {} is the function with the empty domain.
None == [None |-> TRUE]

EmptyDict == [k \in {} |-> 0]

\* bool(x) for the values _bson can hold: None and an empty dict are falsy,
\* every other dict is truthy.
Truthy(x) == x # None /\ DOMAIN x # {}

\* bool(x) for a tuple (_partialqueries): the empty tuple is falsy.
TruthyTuple(x) == Len(x) # 0

BoundedSeq(S, n) == UNION {[1..k -> S] : k \in 0..n}

RECURSIVE SumLen(_)
SumLen(s) == IF s = <<>> THEN 0 ELSE 2 + Len(Head(s)._partialqueries) + SumLen(Tail(s))

\* ------------------------------------------------- the model layer (external)
\* The Model subclasses.
Models == {"User", "Post"}

\* vars(modelcls): attribute name -> attribute value.  Only some attributes
\* are Property instances: pEmail is shared by both classes under two
\* different attribute names, pAge is declared by User only.
ModelVars(modelcls) ==
  IF modelcls = "User"
    THEN [email |-> [isProperty |-> TRUE, id |-> "pEmail"],
          age |-> [isProperty |-> TRUE, id |-> "pAge"],
          _collection |-> [isProperty |-> FALSE, id |-> "classmethod"]]
    ELSE [mail |-> [isProperty |-> TRUE, id |-> "pEmail"],
          _collection |-> [isProperty |-> FALSE, id |-> "classmethod"]]

\* Property._pack(value): the property's conversion to the stored form.
Pack(property, value) == <<"packed", property, value>>

\* The comparison units callers build (User.email == 1, User.age < 2).
PropertyQuery(property, operator, value) ==
  [cls |-> "PropertyQuery", property |-> property, operator |-> operator,
   value |-> value]

PropertyQueries ==
  {PropertyQuery("pEmail", "$eq", 1), PropertyQuery("pAge", "$lt", 2)}

IsPropertyQuery(x) == x.cls = "PropertyQuery"

IsLogicOperator(x) == x.cls \in {"AND", "OR"}

\* ------------------------------------------------------------------- state
VARIABLES
  nodes,     \* the AND / OR instances: [cls, _bson, _partialqueries]
  call,      \* the last bson() call and how it ended
  firstRet,  \* per node with children: the first value bson() returned for it
  queries,   \* the Query instances: [_model, _logic_chain, _query]
  built,     \* per Query: its fields as __init__ left them
  qcall,     \* the last Query call and how it ended
  history,   \* how far the calls made so far go through the sequence
             \* <<slicing fetch, iteration, filter>>
  dicts,     \* threaded runs: the dict objects bson() has created, by identity
  threads    \* threaded runs: each thread's bson() call stack and outcome

vars == <<nodes, call, firstRet, queries, built, qcall, history, dicts, threads>>

tvars == <<dicts, threads>>

lvars == <<nodes, call, firstRet>>

qvars == <<queries, built, qcall, history>>

NodeIds == 1..Len(nodes)

\* A reference to an existing AND / OR instance, as held in _partialqueries.
NodeRef(n) == [cls |-> nodes[n].cls, ref |-> n]

Children == PropertyQueries \cup {NodeRef(n) : n \in NodeIds}

\* ------------------------------------------------------------ AND / OR
\* AND.__init__ / OR.__init__
LogicOperatorInit(cls, partialqueries) ==
  [cls |-> cls, _bson |-> None, _partialqueries |-> partialqueries]

\* The native keyword each class writes.
Combinator(cls) == IF cls = "AND" THEN "$and" ELSE "$or"

\* attr_map: Property -> attribute name, built from vars(modelcls).
AttrMap(modelcls) ==
  LET mv == ModelVars(modelcls)
      props == {mv[a].id : a \in {b \in DOMAIN mv : mv[b].isProperty}}
  IN  [p \in props |-> CHOOSE a \in DOMAIN mv : mv[a].isProperty /\ mv[a].id = p]

\* What a bson() call gives back: the heap after it, whether it raised
\* (KeyError from attr_map[...]), and the returned value.
Returned(h, v) == [heap |-> h, raised |-> FALSE, val |-> v]

Raised(h) == [heap |-> h, raised |-> TRUE, val |-> None]

\* and_query.append(x): self._bson[key] is the list being filled.
AppendFragment(h, n, x) ==
  LET key == Combinator(h[n].cls)
  IN  [h EXCEPT ![n]._bson = (key :> Append(h[n]._bson[key], x))]

\* { attr_map[pq.property]: { pq.operator: pq.property._pack(pq.value) } }
Fragment(attr_map, pq) ==
  (attr_map[pq.property] :> (pq.operator :> Pack(pq.property, pq.value)))

RECURSIVE bson(_, _, _), bsonLoop(_, _, _, _)

\* A bson() that has lost its first line (the empty check).
bsonSkipsEmptyCheck(h, n, modelcls) ==
  IF Truthy(h[n]._bson) THEN Returned(h, h[n]._bson)
  ELSE bsonLoop([h EXCEPT ![n]._bson = (Combinator(h[n].cls) :> <<>>)],
                n, modelcls, 1)

\* A bson() that has lost its second line (the cache check).
bsonSkipsCacheCheck(h, n, modelcls) ==
  IF ~TruthyTuple(h[n]._partialqueries) THEN Returned(h, EmptyDict)
  ELSE bsonLoop([h EXCEPT ![n]._bson = (Combinator(h[n].cls) :> <<>>)],
                n, modelcls, 1)

\* AND.bson / OR.bson on node n of heap h.
bson(h, n, modelcls) ==
  IF ~TruthyTuple(h[n]._partialqueries) THEN Returned(h, EmptyDict)
  ELSE IF Truthy(h[n]._bson) THEN Returned(h, h[n]._bson)
  ELSE bsonLoop([h EXCEPT ![n]._bson = (Combinator(h[n].cls) :> <<>>)],
                n, modelcls, 1)

\* A loop body that puts each new fragment in front of the list.
bsonLoopPrepends(h, n, modelcls, i) ==
  IF i > Len(h[n]._partialqueries) THEN Returned(h, h[n]._bson)
  ELSE
    LET pq == h[n]._partialqueries[i]
        key == Combinator(h[n].cls)
        Prepend(hh, x) ==
          [hh EXCEPT ![n]._bson = (key :> <<x>> \o hh[n]._bson[key])]
    IN  IF IsPropertyQuery(pq) THEN
          IF pq.property \in DOMAIN AttrMap(modelcls)
            THEN bsonLoop(Prepend(h, Fragment(AttrMap(modelcls), pq)),
                          n, modelcls, i + 1)
            ELSE Raised(h)
        ELSE IF IsLogicOperator(pq) THEN
          LET r == bson(h, pq.ref, modelcls)
          IN  IF r.raised THEN r
              ELSE bsonLoop(Prepend(r.heap, r.val), n, modelcls, i + 1)
        ELSE bsonLoop(h, n, modelcls, i + 1)

\* The for loop of bson(), from child i on, and the final return.
bsonLoop(h, n, modelcls, i) ==
  IF i > Len(h[n]._partialqueries) THEN Returned(h, h[n]._bson)
  ELSE
    LET pq == h[n]._partialqueries[i]
    IN  IF IsPropertyQuery(pq) THEN
          IF pq.property \in DOMAIN AttrMap(modelcls)
            THEN bsonLoop(AppendFragment(h, n, Fragment(AttrMap(modelcls), pq)),
                          n, modelcls, i + 1)
            ELSE Raised(h)
        ELSE IF IsLogicOperator(pq) THEN
          LET r == bson(h, pq.ref, modelcls)
          IN  IF r.raised THEN r
              ELSE bsonLoop(AppendFragment(r.heap, n, r.val), n, modelcls, i + 1)
        ELSE bsonLoop(h, n, modelcls, i + 1)

\* ----------------------------------------------------------------- actions
NoThreads ==
  /\ dicts = <<>>
  /\ threads = <<>>

NoQueries ==
  /\ queries = <<>>
  /\ built = <<>>
  /\ qcall = [op |-> "none"]
  /\ history = <<>>

Init ==
  /\ nodes = <<>>
  /\ call = [op |-> "none"]
  /\ firstRet = <<>>
  /\ NoQueries
  /\ NoThreads

\* AND(*partialqueries).  Building an instance touches no other instance, so
\* the trees are all built before the first bson() call.
NewAND ==
  /\ call.op = "none"
  /\ SumLen(nodes) + 2 <= MaxSize
  /\ \E pqs \in BoundedSeq(Children, MaxSize - SumLen(nodes) - 2) :
       nodes' = Append(nodes, LogicOperatorInit("AND", pqs))
  /\ firstRet' = Append(firstRet, None)
  /\ UNCHANGED <<call, qvars, tvars>>

\* OR(*partialqueries).  Building an instance touches no other instance, so
\* the trees are all built before the first bson() call.
NewOR ==
  /\ call.op = "none"
  /\ SumLen(nodes) + 2 <= MaxSize
  /\ \E pqs \in BoundedSeq(Children, MaxSize - SumLen(nodes) - 2) :
       nodes' = Append(nodes, LogicOperatorInit("OR", pqs))
  /\ firstRet' = Append(firstRet, None)
  /\ UNCHANGED <<call, qvars, tvars>>

\* node.bson(modelcls), called by client code.
Compile ==
  \E n \in NodeIds, modelcls \in Models :
    LET r == bson(nodes, n, modelcls)
    IN  /\ nodes' = r.heap
        /\ call' = [op |-> "bson", node |-> n, model |-> modelcls,
                    raised |-> r.raised, val |-> r.val,
                    fresh |-> (nodes[n]._bson = None)]
        /\ firstRet' =
             IF ~r.raised /\ firstRet[n] = None /\ TruthyTuple(nodes[n]._partialqueries)
               THEN [firstRet EXCEPT ![n] = r.val]
               ELSE firstRet
        /\ UNCHANGED <<qvars, tvars>>

Next == NewAND \/ NewOR \/ Compile

Spec == Init /\ [][Next]_vars

\* ------------------------------------------------- storage, Key (external)
\* str(document['_id']): the identifier string of a stored ObjectId.
Str(oid) == <<"str", oid>>

\* The collection: MaxDocs documents in storage order.
ObjectId(i) == 100 * (MaxDocs + 1 - i) + i

Store == [i \in 1..MaxDocs |-> [_id |-> ObjectId(i)]]

\* How many documents of the collection a filter can match: all of them
\* for the match-all filter {}, any number of them otherwise (the field
\* values stored are not part of this model).
Matching(filter) ==
  IF filter = EmptyDict THEN {MaxDocs} ELSE 0..MaxDocs

\* collection.find(bson, projection={'_id': 1}): a cursor over the matched
\* documents, in storage order.  ObjectIds are opaque to the query layer, so
\* the documents matched are taken to be the first ones stored.
Find(filter, matched) ==
  [spec |-> filter, docs |-> SubSeq(Store, 1, matched)]

\* cursor[start:stop]: the half-open window of the match order.
CursorSlice(cursor, start, stop) ==
  SubSeq(cursor.docs, start + 1, IF stop < Len(cursor.docs) THEN stop
                                 ELSE Len(cursor.docs))

\* cursor.count(): the number of documents matched.
CursorCount(cursor) == Len(cursor.docs)

\* Key(model, id)
Key(model, id) == [cls |-> "Key", model |-> model, id |-> id]

\* Key.get(): the entity the identifier resolves to.
KeyGet(key) == [cls |-> "Entity", model |-> key.model, key |-> key.id]

\* ----------------------------------------------------------------- Query
\* What a Query method gives back: the receiver after the call, the
\* exception raised ("" if none), the value returned, and the number of
\* Key.get() round trips made.
Result(self, raised, val, round_trips) ==
  [self |-> self, raised |-> raised, val |-> val, gets |-> round_trips]

\* The attributes an instance of Query has: those __init__ sets and those of
\* the class.
QueryAttributes ==
  {"_model", "_logic_chain", "_query"}
    \cup {"__init__", "filter", "fetch", "count", "get", "order", "__iter__", "iter"}

\* Query.__init__ (with Query._query): compile the logic chain, ask the
\* collection for a cursor.
QueryInit(h, model, logic_chain, matched) ==
  LET r == bson(h, logic_chain, model)
  IN  IF r.raised
        THEN [heap |-> r.heap, raised |-> "KeyError", self |-> None]
        ELSE [heap |-> r.heap, raised |-> "",
              self |-> [_model |-> model, _logic_chain |-> logic_chain,
                        _query |-> Find(r.val, matched)]]

\* Query.count
count(self) == Result(self, "", CursorCount(self._query), 0)

\* A fetch that slices [offset:count] instead of [offset:offset+count].
fetchStopIsCount(self, offset, cnt, keys_only) ==
  LET subsection == CursorSlice(self._query, offset, cnt)
      keys == [i \in 1..Len(subsection) |-> Key(self._model, Str(subsection[i]._id))]
  IN  IF keys_only THEN Result(self, "", keys, 0)
      ELSE Result(self, "", [i \in 1..Len(keys) |-> KeyGet(keys[i])], Len(keys))

\* A fetch that keeps the sliced cursor as the query's cursor.
fetchKeepsSlice(self, offset, cnt, keys_only) ==
  LET subsection == CursorSlice(self._query, offset, offset + cnt)
      keys == [i \in 1..Len(subsection) |-> Key(self._model, Str(subsection[i]._id))]
      me == [self EXCEPT !._query.docs = subsection]
  IN  IF keys_only THEN Result(me, "", keys, 0)
      ELSE Result(me, "", [i \in 1..Len(keys) |-> KeyGet(keys[i])], Len(keys))

\* Query.fetch
fetch(self, offset, cnt, keys_only) ==
  LET subsection == CursorSlice(self._query, offset, offset + cnt)
      keys == [i \in 1..Len(subsection) |-> Key(self._model, Str(subsection[i]._id))]
  IN  IF keys_only THEN Result(self, "", keys, 0)
      ELSE Result(self, "", [i \in 1..Len(keys) |-> KeyGet(keys[i])], Len(keys))

\* cursor[index]: the document at a position, IndexError if there is none.
CursorItem(cursor, index) ==
  IF index < Len(cursor.docs)
    THEN [raised |-> "", doc |-> cursor.docs[index + 1]]
    ELSE [raised |-> "IndexError", doc |-> None]

\* A get that has lost its count() == 0 check.
getSkipsCountCheck(self, keys_only) ==
  LET item == CursorItem(self._query, 0)
      key == Key(self._model, Str(item.doc._id))
  IN  IF item.raised # "" THEN Result(self, item.raised, None, 0)
      ELSE IF keys_only THEN Result(self, "", key, 0)
      ELSE Result(self, "", KeyGet(key), 1)

\* Query.get
get(self, keys_only) ==
  IF count(self).val = 0 THEN Result(self, "", None, 0)
  ELSE
    LET item == CursorItem(self._query, 0)
        key == Key(self._model, Str(item.doc._id))
    IN  IF item.raised # "" THEN Result(self, item.raised, None, 0)
        ELSE IF keys_only THEN Result(self, "", key, 0)
        ELSE Result(self, "", KeyGet(key), 1)

\* Query.order: the argument is a Property, a SortDescriptor or anything else.
order(self, sort_descriptor) ==
  IF sort_descriptor = "Property" THEN Result(self, "", None, 0)
  ELSE IF sort_descriptor # "SortDescriptor"
    THEN Result(self, "InvalidSortDescriptor", None, 0)
  ELSE Result(self, "", None, 0)

\* Query.iter / Query.__iter__: calling a generator function runs none of
\* its body; the generator starts before the for loop.
iter(self, keys_only) ==
  [keys_only |-> keys_only, pos |-> 0, pc |-> "loop", yielded |-> <<>>,
   gets |-> 0]

\* next(generator): run the body of Query.iter to its next yield, or to the
\* end of the cursor.
GeneratorNext(g, self) ==
  LET key == Key(self._model, Str(self._query.docs[g.pos]._id))
  IN  IF g.pc = "after_yield_key"
        THEN [g EXCEPT !.pc = "loop", !.gets = @ + 1,
                       !.yielded = Append(@, KeyGet(key))]
      ELSE IF g.pos >= Len(self._query.docs)
        THEN [g EXCEPT !.pc = "done"]
      ELSE
        LET k == Key(self._model, Str(self._query.docs[g.pos + 1]._id))
        IN  IF g.keys_only
              THEN [g EXCEPT !.pos = @ + 1, !.pc = "after_yield_key",
                             !.yielded = Append(@, k)]
              ELSE [g EXCEPT !.pos = @ + 1, !.gets = @ + 1,
                             !.yielded = Append(@, KeyGet(k))]

\* for item in generator: next() until the generator is exhausted.
RECURSIVE Exhaust(_, _)
Exhaust(g, self) ==
  IF g.pc = "done" THEN g ELSE Exhaust(GeneratorNext(g, self), self)

\* --------------------------------------------------------- Query actions
\* The logic chains the client has built before it makes queries.
QueryRoots ==
  {<<LogicOperatorInit("AND", <<>>)>>,
   <<LogicOperatorInit("AND", <<PropertyQuery("pEmail", "$eq", 1)>>)>>,
   <<LogicOperatorInit("OR", <<PropertyQuery("pEmail", "$eq", 1),
                               PropertyQuery("pAge", "$lt", 2)>>)>>}

InitQuery ==
  /\ nodes \in QueryRoots
  /\ call = [op |-> "none"]
  /\ firstRet = [n \in 1..1 |-> None]
  /\ NoQueries
  /\ NoThreads

\* Query(model, logic_chain)
NewQuery ==
  /\ Len(queries) < MaxQueries
  /\ \E model \in Models, logic_chain \in NodeIds :
       \E matched \in Matching(bson(nodes, logic_chain, model).val) :
         LET r == QueryInit(nodes, model, logic_chain, matched)
         IN  /\ nodes' = r.heap
             /\ queries' = IF r.raised = "" THEN Append(queries, r.self) ELSE queries
             /\ built' = IF r.raised = "" THEN Append(built, r.self) ELSE built
             /\ qcall' = [op |-> "Query", raised |-> r.raised]
  /\ UNCHANGED <<call, firstRet, history, tvars>>

\* The call history after one more call: it grows when the call is the
\* next one of <<slicing fetch, iteration, filter>>.
Record(op) ==
  IF Len(history) < 3 /\ op = <<"fetch", "iter", "filter">>[Len(history) + 1]
    THEN Append(history, op)
    ELSE history

\* What a method call leaves behind: the receiver as the method left it and
\* the record of the call.
Called(q, op, args, r) ==
  /\ queries' = [queries EXCEPT ![q] = r.self]
  /\ qcall' = [op |-> op, q |-> q, args |-> args, raised |-> r.raised,
               val |-> r.val, gets |-> r.gets]

\* query.fetch(offset, count, keys_only)
Fetch ==
  /\ \E q \in 1..Len(queries), offset \in 0..MaxOffset, cnt \in 0..MaxCount,
        keys_only \in BOOLEAN :
       /\ Called(q, "fetch",
                 [offset |-> offset, count |-> cnt, keys_only |-> keys_only],
                 fetch(queries[q], offset, cnt, keys_only))
       /\ history' = IF offset > 0 /\ cnt > 0 THEN Record("fetch") ELSE history
  /\ UNCHANGED <<lvars, built, tvars>>

\* query.count()
Count ==
  /\ \E q \in 1..Len(queries) : Called(q, "count", <<>>, count(queries[q]))
  /\ UNCHANGED <<lvars, built, history, tvars>>

\* query.get(keys_only)
Get ==
  /\ \E q \in 1..Len(queries), keys_only \in BOOLEAN :
       Called(q, "get", [keys_only |-> keys_only], get(queries[q], keys_only))
  /\ UNCHANGED <<lvars, built, history, tvars>>

\* query.order(sort_descriptor)
Order ==
  /\ \E q \in 1..Len(queries),
        sort_descriptor \in {"Property", "SortDescriptor", "str"} :
       Called(q, "order", [sort_descriptor |-> sort_descriptor],
              order(queries[q], sort_descriptor))
  /\ UNCHANGED <<lvars, built, history, tvars>>

\* query.filter(*args): self.logic_chain is looked up first; only if Query
\* has such an attribute are the AND and the new Query built.
Filter ==
  /\ \E q \in 1..Len(queries), pq \in PropertyQueries :
       IF "logic_chain" \notin QueryAttributes
         THEN /\ qcall' = [op |-> "filter", q |-> q, args |-> <<pq>>,
                           raised |-> "AttributeError", val |-> None, gets |-> 0]
              /\ UNCHANGED <<nodes, queries, built>>
         ELSE \E matched \in 0..MaxDocs :
                LET new_login_chain ==
                      LogicOperatorInit("AND",
                        <<NodeRef(queries[q]._logic_chain), pq>>)
                    r == QueryInit(Append(nodes, new_login_chain),
                                   queries[q]._model, Len(nodes) + 1, matched)
                IN  /\ nodes' = r.heap
                    /\ queries' = IF r.raised = "" THEN Append(queries, r.self)
                                  ELSE queries
                    /\ built' = IF r.raised = "" THEN Append(built, r.self)
                                ELSE built
                    /\ qcall' = [op |-> "filter", q |-> q, args |-> <<pq>>,
                                 raised |-> r.raised,
                                 val |-> IF r.raised = "" THEN r.self ELSE None,
                                 gets |-> 0]
  /\ history' = Record("filter")
  /\ UNCHANGED <<call, firstRet, tvars>>

\* for item in query.iter(keys_only): the whole loop of the caller.
Iterate ==
  /\ \E q \in 1..Len(queries), keys_only \in BOOLEAN :
       LET g == Exhaust(iter(queries[q], keys_only), queries[q])
       IN  Called(q, "iter", [keys_only |-> keys_only],
                  Result(queries[q], "", g.yielded, g.gets))
  /\ history' = Record("iter")
  /\ UNCHANGED <<lvars, built, tvars>>

NextQuery ==
  NewQuery \/ Fetch \/ Count \/ Get \/ Order \/ Filter \/ Iterate

SpecQuery == InitQuery /\ [][NextQuery]_vars

\* ------------------------------------------------------- threaded bson()
\* Two or more threads calling bson() on the same node.  Here dict objects
\* are kept by identity: nodes[n]._bson is None or a reference [ref |-> k] to
\* dicts[k] = [key, list], and a list holds fragments and references to the
\* dicts nested calls returned.  Each action is one line of bson(); the lines
\* building attr_map (196-201) touch nothing shared and run with line 203.
ThreadIds == 1..MaxThreads

\* The dict a reference stands for (None for None).
Deref(ds, x) == IF x = None THEN None ELSE (ds[x.ref].key :> ds[x.ref].list)

\* The contents of a value right now, references followed.
RECURSIVE Resolve(_, _)
Resolve(ds, x) ==
  IF DOMAIN x = {"ref"}
    THEN (ds[x.ref].key :>
            [i \in 1..Len(ds[x.ref].list) |-> Resolve(ds, ds[x.ref].list[i])])
    ELSE x

Frame(n) == [node |-> n, pc |-> "193", i |-> 1, and_query |-> 0, pending |-> None]

Top(t) == threads[t].stack[Len(threads[t].stack)]

AtLine(t, line) ==
  /\ threads[t].status = "running"
  /\ Top(t).pc = line

\* The thread's stack with its top frame replaced.
WithTop(t, frame) ==
  [threads EXCEPT ![t].stack[Len(threads[t].stack)] = frame]

\* return v: to the calling frame, which is at line 214, or to the client,
\* which sees what v holds at that moment.
Return(t, v, ds) ==
  LET stack == threads[t].stack
      depth == Len(stack)
  IN  IF depth = 1
        THEN [threads EXCEPT ![t].status = "returned", ![t].stack = <<>>,
                             ![t].val = Resolve(ds, v)]
        ELSE [threads EXCEPT ![t].stack =
                [SubSeq(stack, 1, depth - 1) EXCEPT ![depth - 1].pending = v]]

\* The trees the threads compile; the root is the last node.
ThreadRoots ==
  {<<LogicOperatorInit("AND", <<PropertyQuery("pEmail", "$eq", 1),
                                PropertyQuery("pAge", "$lt", 2)>>)>>,
   <<LogicOperatorInit("OR", <<PropertyQuery("pEmail", "$eq", 1)>>),
     LogicOperatorInit("AND", <<[cls |-> "OR", ref |-> 1],
                                PropertyQuery("pEmail", "$eq", 1)>>)>>,
   <<LogicOperatorInit("AND", <<>>),
     LogicOperatorInit("OR", <<[cls |-> "AND", ref |-> 1]>>)>>}

InitThreads ==
  /\ nodes \in ThreadRoots
  /\ call = [op |-> "none"]
  /\ firstRet = <<>>
  /\ NoQueries
  /\ dicts = <<>>
  /\ threads = [t \in ThreadIds |->
                  [status |-> "idle", model |-> "User", stack |-> <<>>,
                   val |-> None]]

\* A thread calls root.bson(modelcls).
Call(t) ==
  /\ threads[t].status = "idle"
  /\ \E modelcls \in Models :
       threads' = [threads EXCEPT ![t].status = "running",
                                  ![t].model = modelcls,
                                  ![t].stack = <<Frame(Len(nodes))>>]
  /\ UNCHANGED <<nodes, dicts, call, firstRet, qvars>>

\* if not self._partialqueries: return {}
Line193(t) ==
  /\ AtLine(t, "193")
  /\ threads' = IF ~TruthyTuple(nodes[Top(t).node]._partialqueries)
                  THEN Return(t, EmptyDict, dicts)
                  ELSE WithTop(t, [Top(t) EXCEPT !.pc = "194"])
  /\ UNCHANGED <<nodes, dicts, call, firstRet, qvars>>

\* if self._bson: return self._bson
Line194(t) ==
  /\ AtLine(t, "194")
  /\ threads' = IF Truthy(Deref(dicts, nodes[Top(t).node]._bson))
                  THEN Return(t, nodes[Top(t).node]._bson, dicts)
                  ELSE WithTop(t, [Top(t) EXCEPT !.pc = "203"])
  /\ UNCHANGED <<nodes, dicts, call, firstRet, qvars>>

\* self._bson = { '$and': [] }
Line203(t) ==
  /\ AtLine(t, "203")
  /\ dicts' = Append(dicts, [key |-> Combinator(nodes[Top(t).node].cls),
                             list |-> <<>>])
  /\ nodes' = [nodes EXCEPT ![Top(t).node]._bson = [ref |-> Len(dicts) + 1]]
  /\ threads' = WithTop(t, [Top(t) EXCEPT !.pc = "204"])
  /\ UNCHANGED <<call, firstRet, qvars>>

\* and_query = self._bson['$and']
Line204(t) ==
  /\ AtLine(t, "204")
  /\ threads' = WithTop(t, [Top(t) EXCEPT
                              !.pc = "206",
                              !.and_query = nodes[Top(t).node]._bson.ref])
  /\ UNCHANGED <<nodes, dicts, call, firstRet, qvars>>

\* for partialquery in self._partialqueries: the append of a comparison
\* unit's fragment (or the KeyError), or the call of a nested node's bson().
Line206(t) ==
  /\ AtLine(t, "206")
  /\ LET f == Top(t)
         pqs == nodes[f.node]._partialqueries
         pq == pqs[f.i]
         attr_map == AttrMap(threads[t].model)
     IN  IF f.i > Len(pqs)
           THEN /\ threads' = WithTop(t, [f EXCEPT !.pc = "216"])
                /\ UNCHANGED dicts
         ELSE IF IsPropertyQuery(pq)
           THEN IF pq.property \in DOMAIN attr_map
                  THEN /\ dicts' = [dicts EXCEPT ![f.and_query].list =
                                      Append(@, Fragment(attr_map, pq))]
                       /\ threads' = WithTop(t, [f EXCEPT !.i = @ + 1])
                  ELSE /\ threads' = [threads EXCEPT ![t].status = "raised",
                                                     ![t].stack = <<>>]
                       /\ UNCHANGED dicts
         ELSE IF IsLogicOperator(pq)
           THEN /\ threads' = [threads EXCEPT ![t].stack =
                                 Append([threads[t].stack EXCEPT
                                           ![Len(threads[t].stack)].pc = "214"],
                                        Frame(pq.ref))]
                /\ UNCHANGED dicts
         ELSE /\ threads' = WithTop(t, [f EXCEPT !.i = @ + 1])
              /\ UNCHANGED dicts
  /\ UNCHANGED <<nodes, call, firstRet, qvars>>

\* and_query.append(partialquery.bson(modelcls)), once the call is back
Line214(t) ==
  /\ AtLine(t, "214")
  /\ dicts' = [dicts EXCEPT ![Top(t).and_query].list = Append(@, Top(t).pending)]
  /\ threads' = WithTop(t, [Top(t) EXCEPT !.pc = "206", !.i = @ + 1,
                                          !.pending = None])
  /\ UNCHANGED <<nodes, call, firstRet, qvars>>

\* return self._bson
Line216(t) ==
  /\ AtLine(t, "216")
  /\ threads' = Return(t, nodes[Top(t).node]._bson, dicts)
  /\ UNCHANGED <<nodes, dicts, call, firstRet, qvars>>

NextThreads ==
  \E t \in ThreadIds :
    \/ Call(t) \/ Line193(t) \/ Line194(t) \/ Line203(t) \/ Line204(t)
    \/ Line206(t) \/ Line214(t) \/ Line216(t)

SpecThreads == InitThreads /\ [][NextThreads]_vars

\* ------------------------------------------------------------ claims C1-C4
\* The filter document a node with children is specified to compile to on
\* its first compile, read off heap h: {"$and": [f1..fN]} or {"$or": [f1..fN]},
\* fi being {declared name: {operator: packed value}} for a comparison unit
\* and what the nested node's own bson(modelcls) gives for a nested node (the
\* match-all {} if it has no children, its cached filter if it has one, its
\* own first compilation otherwise).
RECURSIVE ExpectedFilter(_, _, _)
ExpectedFilter(h, n, modelcls) ==
  LET pqs == h[n]._partialqueries
      mv == ModelVars(modelcls)
      DeclaredName(p) ==
        CHOOSE a \in DOMAIN mv : mv[a].isProperty /\ mv[a].id = p
      Nested(k) ==
        IF Len(h[k]._partialqueries) = 0 THEN EmptyDict
        ELSE IF h[k]._bson # None THEN h[k]._bson
        ELSE ExpectedFilter(h, k, modelcls)
      F(i) ==
        IF pqs[i].cls = "PropertyQuery"
          THEN (DeclaredName(pqs[i].property) :>
                  (pqs[i].operator :> Pack(pqs[i].property, pqs[i].value)))
          ELSE Nested(pqs[i].ref)
  IN  IF h[n].cls = "AND" THEN [k \in {"$and"} |-> [i \in 1..Len(pqs) |-> F(i)]]
      ELSE [k \in {"$or"} |-> [i \in 1..Len(pqs) |-> F(i)]]

\* Whether node n holds, at any depth, a comparison unit whose property the
\* model does not declare.
RECURSIVE HasUndeclared(_, _, _)
HasUndeclared(h, n, modelcls) ==
  \E i \in 1..Len(h[n]._partialqueries) :
    LET pq == h[n]._partialqueries[i]
    IN  IF pq.cls = "PropertyQuery"
          THEN \A a \in DOMAIN ModelVars(modelcls) :
                 ~(ModelVars(modelcls)[a].isProperty
                   /\ ModelVars(modelcls)[a].id = pq.property)
          ELSE HasUndeclared(h, pq.ref, modelcls)

\* C1: the first compile of an AND / OR node with N >= 1 children raises
\* only if some comparison unit in it is undeclared in the model, and
\* otherwise returns {"$and": [f1..fN]} (AND) or {"$or": [f1..fN]} (OR):
\* exactly N fragments, in child order, each the declared field name with the
\* operator and the packed value, or the nested node's compilation.
C1_FirstCompileStructure ==
  [][(/\ call'.op = "bson"
      /\ Len(nodes[call'.node]._partialqueries) >= 1
      /\ nodes[call'.node]._bson = None)
     => IF call'.raised
          THEN HasUndeclared(nodes, call'.node, call'.model)
          ELSE call'.val = ExpectedFilter(nodes, call'.node, call'.model)]_vars

\* C1 witness: AND(cmp, OR(x, y)) (in either order) compiled for the first
\* time, returning two fragments under "$and".
C1_Witness ==
  /\ call.op = "bson" /\ call.fresh /\ ~call.raised
  /\ nodes[call.node].cls = "AND"
  /\ Len(nodes[call.node]._partialqueries) = 2
  /\ \E i, j \in 1..2 :
       /\ nodes[call.node]._partialqueries[i].cls = "PropertyQuery"
       /\ nodes[call.node]._partialqueries[j].cls = "OR"
       /\ Len(nodes[nodes[call.node]._partialqueries[j].ref]._partialqueries) = 2
  /\ DOMAIN call.val = {"$and"}
  /\ Len(call.val["$and"]) = 2

\* C2: bson() of an AND() / OR() without children returns the match-all
\* filter {} on every call, for every model, and never raises.
C2_EmptyIsMatchAll ==
  (call.op = "bson" /\ Len(nodes[call.node]._partialqueries) = 0)
    => (~call.raised /\ call.val = EmptyDict)

\* C2 witness: a childless node compiled directly after it was already
\* compiled as the nested child of another node.
C2_Witness ==
  /\ call.op = "bson"
  /\ Len(nodes[call.node]._partialqueries) = 0
  /\ call.val = EmptyDict
  /\ \E p \in NodeIds :
       /\ nodes[p]._bson # None
       /\ \E i \in 1..Len(nodes[p]._partialqueries) :
            /\ IsLogicOperator(nodes[p]._partialqueries[i])
            /\ nodes[p]._partialqueries[i].ref = call.node

\* C3: once bson() has returned a filter for a node with children, the
\* cache keeps that filter and every later bson() of the node, whatever the
\* model, returns it.
C3_LaterCompilesReturnFirst ==
  /\ \A n \in NodeIds : firstRet[n] # None => nodes[n]._bson = firstRet[n]
  /\ (/\ call.op = "bson"
      /\ Len(nodes[call.node]._partialqueries) >= 1
      /\ firstRet[call.node] # None)
     => (~call.raised /\ call.val = firstRet[call.node])

\* C3 witness: a later compile against Post of a node first compiled against
\* User returns the fragment with User's field name.
C3_Witness ==
  /\ call.op = "bson" /\ ~call.fresh /\ ~call.raised
  /\ call.model = "Post"
  /\ Len(nodes[call.node]._partialqueries) >= 1
  /\ call.val = firstRet[call.node]
  /\ \E i \in 1..Len(nodes[call.node]._partialqueries) :
       call.val[Combinator(nodes[call.node].cls)][i] =
         Fragment(AttrMap("User"), PropertyQuery("pEmail", "$eq", 1))

\* C4 (as claimed): a compile that fails with the undeclared-field error
\* leaves nothing cached, so compiling the same node against the same model
\* again fails again instead of returning a filter.
C4_FailedCompileFailsAgain ==
  [][(/\ call.op = "bson" /\ call.raised
      /\ call'.op = "bson"
      /\ call'.node = call.node
      /\ call'.model = call.model)
     => call'.raised]_vars

\* ------------------------------------------------------------ claims C5-C9
\* C5 (as claimed): Q.filter(args) returns a new Query, distinct from Q, on
\* Q's model, whose root is AND(Q's root, args).
C5_FilterReturnsNewQuery ==
  qcall.op = "filter" =>
    /\ qcall.raised = ""
    /\ qcall.val # queries[qcall.q]
    /\ qcall.val._model = queries[qcall.q]._model
    /\ nodes[qcall.val._logic_chain].cls = "AND"
    /\ nodes[qcall.val._logic_chain]._partialqueries =
         <<NodeRef(queries[qcall.q]._logic_chain)>> \o qcall.args

\* The item fetch / get / iteration give for a matched document.
ItemFor(q, doc, keys_only) ==
  IF keys_only
    THEN [cls |-> "Key", model |-> built[q]._model, id |-> <<"str", doc._id>>]
    ELSE [cls |-> "Entity", model |-> built[q]._model, key |-> <<"str", doc._id>>]

C7_IterationHonorsKeysOnly ==
  qcall.op = "iter" =>
    LET docs == built[qcall.q]._query.docs
    IN  /\ Len(qcall.val) = Len(docs)
        /\ \A i \in 1..Len(docs) :
             qcall.val[i] = ItemFor(qcall.q, docs[i], qcall.args.keys_only)
        /\ qcall.gets = IF qcall.args.keys_only THEN 0 ELSE Len(docs)

C9_QueryUnchanged ==
  /\ \A q \in 1..Len(queries) : queries[q] = built[q]
  /\ qcall.op = "count" => qcall.val = Len(built[qcall.q]._query.docs)

\* C9 witness: count() on a query with several matches after a fetch from a
\* non-zero offset, an iteration and a filter call.
C9_Witness ==
  /\ qcall.op = "count"
  /\ qcall.val >= 2
  /\ history = <<"fetch", "iter", "filter">>

\* ----------------------------------------------------------------- claim C10
\* C10 (as claimed): when the threads compile the same node against the same
\* model and no call fails, every call that returns a filter for a node with
\* children returns it complete: it holds one fragment per child at the
\* moment it is returned.
C10_ConcurrentCompileComplete ==
  \A t \in ThreadIds :
    (/\ threads[t].status = "returned"
     /\ \A u \in ThreadIds :
          /\ threads[u].status # "raised"
          /\ threads[u].status # "idle" => threads[u].model = threads[t].model
     /\ TruthyTuple(nodes[Len(nodes)]._partialqueries))
      => Len(threads[t].val[Combinator(nodes[Len(nodes)].cls)])
           = Len(nodes[Len(nodes)]._partialqueries)

====
